---- MODULE Spec2Model ----
(***************************************************************************)
(* Model of the Circle<T> circular-buffer adapter of alexandria.h.         *)
(*                                                                         *)
(* A Circle is the pair (contents, index): a std::vector<T> and an int     *)
(* naming the physical position that is logical position 0.  Every public  *)
(* member function is one action.  The int is modelled with IntBits bits   *)
(* (two's complement) and size_t with twice as many, so that the mixed     *)
(* signed/unsigned comparisons and compound assignments of the wrap loops  *)
(* are evaluated as the compiler evaluates them.                           *)
(*                                                                         *)
(* The PythonicVector<T> adapter of the same header is modelled next to it *)
(* (variables pv...), with its own specification SpecPV.                   *)
(*                                                                         *)
(* Further parts of the header, each with its own variables and its own    *)
(* specification: a PythonicVector with one slice of it and a plain array  *)
(* (SpecCopy), the wrap loops of Circle one iteration at a time (SpecLoop),*)
(* the unit-test macros (SpecTests) and the Tween class (SpecTween).       *)
(***************************************************************************)
EXTENDS Integers, Sequences, FiniteSets, TLC

\* ---- bounds of the model ------------------------------------------------
MaxLen == 3        \* largest contents.size() explored
MaxElem == 3       \* element values are 1..MaxElem
MaxDelta == 3      \* deltas and offsets are drawn from -MaxDelta..MaxDelta
IntBits == 4       \* width of int in the model (32 in the build)
MaxSize == 5       \* largest PythonicVector explored
MaxCopy == 2       \* largest vector in the slice / plain-array comparison
MaxFailures == 3   \* most failing tests followed
MaxTime == 4       \* Tween times are -MaxTime..MaxTime ticks

Elems == 1..MaxElem
Deltas == (0 - MaxDelta)..MaxDelta

\* ---- machine integers ---------------------------------------------------
IntMod == 2^IntBits
INT_MAX == 2^(IntBits - 1) - 1
INT_MIN == 0 - 2^(IntBits - 1)
SizeMod == 2^(2 * IntBits)

InInt(v) == v >= INT_MIN /\ v <= INT_MAX

\* conversion int -> size_t (value preserved modulo 2^width)
ToSizeT(i) == i % SizeMod

\* conversion size_t -> int (low bits kept, read as two's complement)
ToInt(u) == LET m == u % IntMod IN IF m > INT_MAX THEN m - IntMod ELSE m

\* ---- state --------------------------------------------------------------
VARIABLES
    contents,   \* std::vector<T> contents, positions 1..Len (physical p is p+1)
    index,      \* int index, the stored zero index
    outcome,    \* how the last call ended: "ok", "out_of_range" (thrown),
                \* "ub_vector", "ub_int" or "ub_read" (undefined behaviour)
    ref,        \* int result: physical position operator[] refers to (T&),
                \* or the value of size(); NoRef when the call has none
    val,        \* T returned by a postfix operator, else NoVal
    op,         \* the last call: its name and arguments
    pre         \* the (contents, index) pair the last call started from

vars == <<contents, index, outcome, ref, val, op, pre>>

VARIABLES
    pvContents, \* PythonicVector::contents of the vector v under test
    pvSlice,    \* contents of the PythonicVector returned by the last v(..)
    pvOutcome,  \* how the last call on v ended: "ok" or "ub_vector"
    pvRef,      \* position of the element v[..] refers to (T&), else NoRef
    pvOp,       \* the last call on v: its name and int arguments
    pvPre       \* contents of v when the last call started

pvVars == <<pvContents, pvSlice, pvOutcome, pvRef, pvOp, pvPre>>

VARIABLES
    orig,       \* contents of the PythonicVector v that slices are taken of
    copy,       \* contents of the PythonicVector s returned by the last v(..)
    array,      \* the plain dynamic array run side by side with v
    cpSliced,   \* whether s exists yet
    cpOp,       \* the last call: its name, the object it was made on ("orig"
                \* for v, "copy" for s) and the element pushed
    cpOutcome   \* how it ended: "ok", "length_error" (thrown) or "ub_vector"

cpVars == <<orig, copy, array, cpSliced, cpOp, cpOutcome>>

VARIABLES
    lpKind,     \* the call whose wrap loops are running: "+=", "-=" or "[]"
    lpIndex,    \* the zero index the call started with
    lpArg,      \* its delta or offset
    lpN,        \* contents.size()
    lpT,        \* the int the loops work on: index, or target in operator[]
    lpPc        \* "high" / "low": at the test of the first / second while;
                \* "done": returned; "thrown": out_of_range; "idle": no call

lpVars == <<lpKind, lpIndex, lpArg, lpN, lpT, lpPc>>

VARIABLES
    TESTS_TOTAL,      \* unsigned int TESTS_TOTAL
    TESTS_SUCCESSFUL, \* unsigned int TESTS_SUCCESSFUL
    TESTS_SILENT,     \* bool TESTS_SILENT
    TESTS_FAILURES,   \* std::vector<std::string> TESTS_FAILURES
    tsOut,            \* what the last statement wrote to std::cout
    tsOp,             \* the last statement: the macro and its condition
    tsRuns            \* how many TEST-family macros have run so far

tsVars == <<TESTS_TOTAL, TESTS_SUCCESSFUL, TESTS_SILENT, TESTS_FAILURES,
            tsOut, tsOp, tsRuns>>

VARIABLES
    function,     \* Tween::function, the easing function, by name
    value,        \* Tween::value, the fraction <<numerator, denominator>>
    time,         \* Tween::time, the end time
    current_time, \* Tween::current_time
    scalar,       \* Tween::scalar
    twOp,         \* the last call on the Tween and its argument
    twAccum       \* the time accumulated by the calls since the last reset

twVars == <<function, value, time, current_time, scalar, twOp, twAccum>>

\* the variables of the other parts of the header
otherThanCircle == <<pvVars, cpVars, lpVars, tsVars, twVars>>
otherThanPV == <<vars, cpVars, lpVars, tsVars, twVars>>
otherThanCopy == <<vars, pvVars, lpVars, tsVars, twVars>>
otherThanLoop == <<vars, pvVars, cpVars, tsVars, twVars>>
otherThanTests == <<vars, pvVars, cpVars, lpVars, twVars>>
otherThanTween == <<vars, pvVars, cpVars, lpVars, tsVars>>

NoRef == 0 - 1
NoVal == 0
NoArg == 0

\* nothing written to std::cout
NoOutput == [kind |-> "none", passed |-> 0, total |-> 0, failed |-> <<>>]

Res(c, i, o, r, v) ==
    [contents |-> c, index |-> i, outcome |-> o, ref |-> r, val |-> v]

\* a call that threw std::out_of_range: nothing was modified before the throw
Throw(c, i) == Res(c, i, "out_of_range", NoRef, NoVal)

\* a call whose behaviour the language leaves undefined: an iterator outside
\* [begin(), end()] handed to std::vector, or an int computation that overflows
UndefinedVector(c, i) == Res(c, i, "ub_vector", NoRef, NoVal)

UndefinedInt(c, i) == Res(c, i, "ub_int", NoRef, NoVal)

\* an int computation that overflows in a function that stores nothing
UndefinedRead(c, i) == Res(c, i, "ub_read", NoRef, NoVal)

IsUB(o) == o \in {"ub_vector", "ub_int", "ub_read"}

\* ---- std::vector primitives ---------------------------------------------
\* contents.insert(begin() + p, x), defined for 0 <= p <= size()
VecInsert(c, p, x) == SubSeq(c, 1, p) \o <<x>> \o SubSeq(c, p + 1, Len(c))

\* contents.erase(begin() + p), defined for 0 <= p < size()
VecErase(c, p) == SubSeq(c, 1, p) \o SubSeq(c, p + 2, Len(c))

\* ---- the wrap loops -----------------------------------------------------
\* while (t >= contents.size()) t -= contents.size();
\* t is converted to size_t for the comparison and for the subtraction, and
\* the difference is converted back to int.
RECURSIVE WrapHigh(_, _)
WrapHigh(t, n) ==
    IF ToSizeT(t) >= n THEN WrapHigh(ToInt((ToSizeT(t) - n) % SizeMod), n)
    ELSE t

\* while (t < 0) t += contents.size();
RECURSIVE WrapLow(_, _)
WrapLow(t, n) ==
    IF t < 0 THEN WrapLow(ToInt((ToSizeT(t) + n) % SizeMod), n)
    ELSE t

Wrap(t, n) == WrapLow(WrapHigh(t, n), n)

\* ---- Circle member functions, as functions of (contents, index) ---------
\* clear that forgets to reset the zero index
clearKeepIndex(c, i) == Res(<<>>, i, "ok", NoRef, NoVal)

clear(c, i) == Res(<<>>, 0, "ok", NoRef, NoVal)

\* insert that places the element after the current one
insertAfter(c, i, x) ==
    IF i >= 0 /\ i <= Len(c)
    THEN Res(VecInsert(c, IF i < Len(c) THEN i + 1 ELSE i, x), i, "ok",
             NoRef, NoVal)
    ELSE UndefinedVector(c, i)

insert(c, i, x) ==
    IF i >= 0 /\ i <= Len(c)
    THEN Res(VecInsert(c, i, x), i, "ok", NoRef, NoVal)
    ELSE UndefinedVector(c, i)

remove(c, i) ==
    IF i >= 0 /\ i < Len(c)
    THEN Res(VecErase(c, i), i, "ok", NoRef, NoVal)
    ELSE UndefinedVector(c, i)

\* operator+= with the shift applied ahead of the empty check
OpPlusEqShiftFirst(c, i, delta) ==
    IF Len(c) = 0 THEN Res(c, ToInt(i + delta), "out_of_range", NoRef, NoVal)
    ELSE IF ~InInt(i + delta) THEN UndefinedInt(c, i)
    ELSE Res(c, Wrap(i + delta, Len(c)), "ok", NoRef, NoVal)

OpPlusEq(c, i, delta) ==
    IF Len(c) = 0 THEN Throw(c, i)
    ELSE IF ~InInt(i + delta) THEN UndefinedInt(c, i)
    ELSE Res(c, Wrap(i + delta, Len(c)), "ok", NoRef, NoVal)

OpMinusEq(c, i, delta) ==
    IF Len(c) = 0 THEN Throw(c, i)
    ELSE IF ~InInt(i - delta) THEN UndefinedInt(c, i)
    ELSE Res(c, Wrap(i - delta, Len(c)), "ok", NoRef, NoVal)

\* prefix ++ that rotates the storage and leaves the zero index alone
OpPreIncRotate(c, i) ==
    IF Len(c) = 0 THEN Res(c, i, "ok", NoRef, NoVal)
    ELSE Res(SubSeq(c, 2, Len(c)) \o <<c[1]>>, i, "ok", NoRef, NoVal)

OpPreInc(c, i) ==
    IF i = INT_MAX THEN UndefinedInt(c, i)
    ELSE IF ToSizeT(i + 1) = Len(c) THEN Res(c, 0, "ok", NoRef, NoVal)
    ELSE Res(c, i + 1, "ok", NoRef, NoVal)

OpPreDec(c, i) ==
    IF i = INT_MIN THEN UndefinedInt(c, i)
    ELSE IF i - 1 = 0 - 1
         THEN Res(c, ToInt((Len(c) - 1) % SizeMod), "ok", NoRef, NoVal)
    ELSE Res(c, i - 1, "ok", NoRef, NoVal)

OpSubscript(c, i, offset) ==
    IF Len(c) = 0 THEN Throw(c, i)
    ELSE IF ~InInt(i + offset) THEN UndefinedRead(c, i)
    ELSE Res(c, i, "ok", Wrap(i + offset, Len(c)), NoVal)

\* postfix ++ that shifts first and reads c[0] afterwards
OpPostIncShiftFirst(c, i) ==
    LET r == OpPreInc(c, i) IN
    IF r.outcome # "ok" THEN r
    ELSE LET og == OpSubscript(r.contents, r.index, 0) IN
         IF og.outcome # "ok" THEN Res(r.contents, r.index, og.outcome, NoRef, NoVal)
         ELSE Res(r.contents, r.index, "ok", NoRef, c[og.ref + 1])

OpPostInc(c, i) ==
    LET og == OpSubscript(c, i, 0) IN
    IF og.outcome # "ok" THEN og
    ELSE LET r == OpPreInc(c, i) IN
         IF r.outcome # "ok" THEN r
         ELSE Res(r.contents, r.index, "ok", NoRef, c[og.ref + 1])

\* postfix -- that shifts first and reads c[0] afterwards
OpPostDecShiftFirst(c, i) ==
    LET r == OpPreDec(c, i) IN
    IF r.outcome # "ok" THEN r
    ELSE LET og == OpSubscript(r.contents, r.index, 0) IN
         IF og.outcome # "ok" THEN Res(r.contents, r.index, og.outcome, NoRef, NoVal)
         ELSE Res(r.contents, r.index, "ok", NoRef, c[og.ref + 1])

OpPostDec(c, i) ==
    LET og == OpSubscript(c, i, 0) IN
    IF og.outcome # "ok" THEN og
    ELSE LET r == OpPreDec(c, i) IN
         IF r.outcome # "ok" THEN r
         ELSE Res(r.contents, r.index, "ok", NoRef, c[og.ref + 1])

size(c, i) == Res(c, i, "ok", Len(c), NoVal)

\* ---- the state machine --------------------------------------------------
\* every vector of at most MaxLen elements
Vectors == UNION {[1..n -> Elems] : n \in 0..MaxLen}

Init ==
    /\ contents = <<>>
    /\ index = 0
    /\ outcome = "ok"
    /\ ref = NoRef
    /\ val = NoVal
    /\ op = [name |-> "Circle", elem |-> NoVal, delta |-> NoArg]
    /\ pre = [contents |-> <<>>, index |-> 0]
    /\ pvContents = <<>>
    /\ pvSlice = <<>>
    /\ pvOutcome = "ok"
    /\ pvRef = NoRef
    /\ pvOp = [name |-> "PythonicVector", a |-> NoArg, b |-> NoArg]
    /\ pvPre = <<>>
    /\ orig = <<>>
    /\ copy = <<>>
    /\ array = <<>>
    /\ cpSliced = FALSE
    /\ cpOp = [name |-> "PythonicVector", target |-> "orig", elem |-> NoVal]
    /\ cpOutcome = "ok"
    /\ lpKind = "Circle"
    /\ lpIndex = 0
    /\ lpArg = NoArg
    /\ lpN = 0
    /\ lpT = 0
    /\ lpPc = "idle"
    /\ TESTS_TOTAL = 0
    /\ TESTS_SUCCESSFUL = 0
    /\ TESTS_SILENT = FALSE
    /\ TESTS_FAILURES = <<>>
    /\ tsOut = NoOutput
    /\ tsOp = [macro |-> "main", cond |-> TRUE]
    /\ tsRuns = 0
    /\ function = "easeLinear"
    /\ value = <<0, 1>>
    /\ time = 1
    /\ current_time = 0
    /\ scalar = 1
    /\ twOp = [name |-> "Tween", arg |-> NoArg]
    /\ twAccum = 0

\* One call of a member function on the current object.  A call with
\* undefined behaviour leaves whatever the build makes of it: any vector after
\* a std::vector call on an invalid iterator, any int after an overflowing int
\* computation (in index when the function assigns it, in the position
\* returned when it only reads).  The program is not followed past undefined
\* behaviour.
Call(name, x, d, r) ==
    /\ ~IsUB(outcome)
    /\ op' = [name |-> name, elem |-> x, delta |-> d]
    /\ pre' = [contents |-> contents, index |-> index]
    /\ outcome' = r.outcome
    /\ ref' \in IF r.outcome = "ub_read"
               THEN NoRef..(Len(contents) - 1) ELSE {r.ref}
    /\ val' = r.val
    /\ contents' \in IF r.outcome = "ub_vector" THEN Vectors ELSE {r.contents}
    /\ index' \in IF r.outcome = "ub_int" THEN INT_MIN..INT_MAX ELSE {r.index}
    /\ UNCHANGED otherThanCircle

Clear == Call("clear", NoVal, NoArg, clear(contents, index))

Insert ==
    /\ Len(contents) < MaxLen
    /\ \E x \in Elems : Call("insert", x, NoArg, insert(contents, index, x))

Remove == Call("remove", NoVal, NoArg, remove(contents, index))

PlusEq == \E d \in Deltas : Call("+=", NoVal, d, OpPlusEq(contents, index, d))

MinusEq == \E d \in Deltas : Call("-=", NoVal, d, OpMinusEq(contents, index, d))

PreInc == Call("++c", NoVal, NoArg, OpPreInc(contents, index))

PostInc == Call("c++", NoVal, NoArg, OpPostInc(contents, index))

PreDec == Call("--c", NoVal, NoArg, OpPreDec(contents, index))

PostDec == Call("c--", NoVal, NoArg, OpPostDec(contents, index))

Subscript ==
    \E o \in Deltas : Call("[]", NoVal, o, OpSubscript(contents, index, o))

Size == Call("size", NoVal, NoArg, size(contents, index))

Next ==
    \/ Clear
    \/ Insert
    \/ Remove
    \/ PlusEq
    \/ MinusEq
    \/ PreInc
    \/ PostInc
    \/ PreDec
    \/ PostDec
    \/ Subscript
    \/ Size

Spec == Init /\ [][Next]_vars

\* ---- the README example "Circular Buffers" ------------------------------
\* Circle<std::string> cs; cs.insert(..) three times; cs++;
\* for (int i = 0; i < cs.size() * 2; i++) std::cout << cs[i] << std::endl;
\* The three inserted values are left open; One, Two, Three are 1, 2, 3.
ScenarioLen == 3

ScenarioInsert ==
    /\ op.name \in {"Circle", "insert"}
    /\ Len(contents) < ScenarioLen
    /\ \E x \in Elems : Call("insert", x, NoArg, insert(contents, index, x))

ScenarioPostInc ==
    /\ op.name = "insert"
    /\ Len(contents) = ScenarioLen
    /\ Call("c++", NoVal, NoArg, OpPostInc(contents, index))

\* the loop variable i of the for loop is the offset of the last read
ScenarioRead ==
    LET i == IF op.name = "c++" THEN 0 ELSE op.delta + 1 IN
    /\ op.name \in {"c++", "[]"}
    /\ i < size(contents, index).ref * 2
    /\ Call("[]", NoVal, i, OpSubscript(contents, index, i))

NextScenario ==
    \/ ScenarioInsert
    \/ ScenarioPostInc
    \/ ScenarioRead

SpecScenario == Init /\ [][NextScenario]_vars

\* ---- the wrap loops, one iteration at a time ----------------------------
\* if (contents.size() == 0) {throw std::out_of_range(..);}
\* the check left out
EmptyCheckNever(n) == FALSE

EmptyCheck(n) == n = 0

\* while (t >= contents.size()): t is converted to size_t for the comparison
HighGuard(t, n) == ToSizeT(t) >= n

\* t -= contents.size(): computed in size_t, converted back to int
HighBody(t, n) == ToInt((ToSizeT(t) - n) % SizeMod)

\* while (t < 0)
LowGuard(t, n) == t < 0

\* t += contents.size()
LowBody(t, n) == ToInt((ToSizeT(t) + n) % SizeMod)

\* index += delta, index -= delta, int target = index + offset
LoopStart(kind, i, d) == IF kind = "-=" THEN i - d ELSE i + d

\* A call of +=, -= or [] on a Circle with zero index i and n elements: the
\* empty check, then the sum; a sum that overflows int is undefined and
\* leaves any int in the loop variable.  A non-empty Circle has a zero index
\* of 0 or more (at or above size() after remove() and ++), an empty one any.
LpCall ==
    /\ lpPc = "idle"
    /\ \E kind \in {"+=", "-=", "[]"} : \E i \in INT_MIN..INT_MAX :
       \E n \in 0..MaxLen : \E d \in Deltas :
          /\ n >= 1 => i >= 0
          /\ lpKind' = kind
          /\ lpIndex' = i
          /\ lpArg' = d
          /\ lpN' = n
          /\ IF EmptyCheck(n)
             THEN lpPc' = "thrown" /\ lpT' = i
             ELSE /\ lpPc' = "high"
                  /\ lpT' \in IF InInt(LoopStart(kind, i, d))
                              THEN {LoopStart(kind, i, d)}
                              ELSE INT_MIN..INT_MAX
    /\ UNCHANGED otherThanLoop

\* one evaluation of the first while: an iteration, or the exit
LpHigh ==
    /\ lpPc = "high"
    /\ IF HighGuard(lpT, lpN)
       THEN lpT' = HighBody(lpT, lpN) /\ lpPc' = "high"
       ELSE lpT' = lpT /\ lpPc' = "low"
    /\ UNCHANGED <<lpKind, lpIndex, lpArg, lpN, otherThanLoop>>

\* one evaluation of the second while: an iteration, or the exit and return
LpLow ==
    /\ lpPc = "low"
    /\ IF LowGuard(lpT, lpN)
       THEN lpT' = LowBody(lpT, lpN) /\ lpPc' = "low"
       ELSE lpT' = lpT /\ lpPc' = "done"
    /\ UNCHANGED <<lpKind, lpIndex, lpArg, lpN, otherThanLoop>>

LpIterate == LpHigh \/ LpLow

\* the call is over: the caller goes on to its next call
LpReturn ==
    /\ lpPc \in {"done", "thrown"}
    /\ lpPc' = "idle"
    /\ lpKind' = "Circle"
    /\ lpIndex' = 0
    /\ lpArg' = NoArg
    /\ lpN' = 0
    /\ lpT' = 0
    /\ UNCHANGED otherThanLoop

NextLoop ==
    \/ LpCall
    \/ LpHigh
    \/ LpLow
    \/ LpReturn

\* a call that has started keeps executing
SpecLoop == Init /\ [][NextLoop]_lpVars /\ WF_lpVars(LpIterate)

\* ---- PythonicVector ------------------------------------------------------
PvRes(c, o, r, sl) == [contents |-> c, outcome |-> o, ref |-> r, slice |-> sl]

\* contents[i] names an element of the vector
InBounds(c, i) == i >= 0 /\ i < Len(c)

\* vectors v is drawn from, and int arguments of v[..] and v(..)
PvElems == 1..2

PvVectors == UNION {[1..n -> PvElems] : n \in 0..MaxSize}

PvIndices == (0 - MaxSize - 1)..(MaxSize + 1)

PvBounds == (0 - 1)..(MaxSize + 1)

\* operator[] whose remap of a negative index is one short
PvSubscriptOneShort(c, idx) ==
    LET i == IF idx < 0
             THEN ToInt((ToSizeT(idx) + Len(c) - 1) % SizeMod)
             ELSE idx
    IN  IF InBounds(c, i) THEN PvRes(c, "ok", i, <<>>)
        ELSE PvRes(c, "ub_vector", NoRef, <<>>)

\* T& operator[](int index): index += contents.size() is computed in size_t
\* and converted back to int; contents[index] is not range-checked
PvSubscript(c, idx) ==
    LET i == IF idx < 0
             THEN ToInt((ToSizeT(idx) + Len(c)) % SizeMod)
             ELSE idx
    IN  IF InBounds(c, i) THEN PvRes(c, "ok", i, <<>>)
        ELSE PvRes(c, "ub_vector", NoRef, <<>>)

\* the T an out-of-bounds contents[i] yields: it stands for any value, and
\* equals no element
Indeterminate == 0

\* for (int i = start; i < end; i++) new_vector.contents.push_back(contents[i]);
\* contents[i] is not range-checked: out of bounds the behaviour is undefined
\* and the element pushed is indeterminate
RECURSIVE PvSliceLoop(_, _, _, _)
PvSliceLoop(c, i, end, nv) ==
    IF i < end
    THEN IF InBounds(c, i)
         THEN PvSliceLoop(c, i + 1, end,
                          PvRes(c, nv.outcome, NoRef, Append(nv.slice, c[i + 1])))
         ELSE PvSliceLoop(c, i + 1, end,
                          PvRes(c, "ub_vector", NoRef,
                                Append(nv.slice, Indeterminate)))
    ELSE nv

\* PythonicVector<T> new_vector;
PvNewVector(c) == PvRes(c, "ok", NoRef, <<>>)

\* slicing that includes the element at end
PvSliceInclusive(c, start, end) ==
    PvSliceLoop(c, start, end + 1, PvNewVector(c))

PvSlice(c, start, end) == PvSliceLoop(c, start, end, PvNewVector(c))

PvPushBack(c, x) == PvRes(Append(c, x), "ok", NoRef, <<>>)

\* contents.pop_back() on an empty vector is undefined
PvPopBack(c) ==
    IF Len(c) > 0 THEN PvRes(SubSeq(c, 1, Len(c) - 1), "ok", NoRef, <<>>)
    ELSE PvRes(c, "ub_vector", NoRef, <<>>)

PvClear(c) == PvRes(<<>>, "ok", NoRef, <<>>)

PvSize(c) == PvRes(c, "ok", Len(c), <<>>)

\* One call of a member function on v; writes tells whether the call modifies
\* v.  A modifying call with undefined behaviour may leave any of the vectors
\* of Vectors in v.  The program is not followed past undefined behaviour.
PvCall(name, a, b, r, writes) ==
    /\ pvOutcome = "ok"
    /\ pvOp' = [name |-> name, a |-> a, b |-> b]
    /\ pvPre' = pvContents
    /\ pvOutcome' = r.outcome
    /\ pvRef' = r.ref
    /\ pvSlice' = r.slice
    /\ pvContents' \in IF r.outcome = "ub_vector" /\ writes
                        THEN Vectors ELSE {r.contents}
    /\ UNCHANGED otherThanPV

PvBracket ==
    \E i \in PvIndices : PvCall("[]", i, NoArg, PvSubscript(pvContents, i), FALSE)

PvParen ==
    \E a \in PvBounds : \E b \in PvBounds :
        PvCall("()", a, b, PvSlice(pvContents, a, b), FALSE)

PushBack ==
    /\ Len(pvContents) < MaxSize
    /\ \E x \in PvElems :
          PvCall("push_back", x, NoArg, PvPushBack(pvContents, x), TRUE)

PopBack == PvCall("pop_back", NoArg, NoArg, PvPopBack(pvContents), TRUE)

PvClearCall == PvCall("clear", NoArg, NoArg, PvClear(pvContents), TRUE)

PvSizeCall == PvCall("size", NoArg, NoArg, PvSize(pvContents), FALSE)

NextPV ==
    \/ PvBracket
    \/ PvParen
    \/ PushBack
    \/ PopBack
    \/ PvClearCall
    \/ PvSizeCall

SpecPV == Init /\ [][NextPV]_pvVars

\* ---- a PythonicVector, one slice of it, and a plain array ---------------
\* T() of the elements resize() appends, for an arithmetic T
DefaultT == 0

\* the values pushed and assigned, all different from T()
CpPushed == 1..2

CpElems == CpPushed \cup {DefaultT}

\* the vectors v and its slice s range over
CpVectors == UNION {[1..n -> CpElems] : n \in 0..MaxCopy}

\* int arguments of v[..] = x, of v(.., ..) and of resize / reserve
CpIndices == (0 - MaxCopy - 1)..MaxCopy

CpBounds == 0..(MaxCopy + 1)

CpSizes == (0 - 1)..MaxCopy

\* std::vector<T>::max_size(): a size_t argument above it is refused
MaxVectorSize == SizeMod \div 2 - 1

\* v[idx] = x: assignment through the T& that operator[] returns
PvAssign(c, idx, x) ==
    LET r == PvSubscript(c, idx)
    IN  IF r.outcome = "ok"
        THEN PvRes([c EXCEPT ![r.ref + 1] = x], "ok", r.ref, <<>>)
        ELSE r

\* resize that never shrinks the vector
PvResizeGrowOnly(c, new_size) ==
    IF ToSizeT(new_size) > MaxVectorSize
    THEN PvRes(c, "length_error", NoRef, <<>>)
    ELSE IF new_size <= Len(c)
         THEN PvRes(c, "ok", NoRef, <<>>)
         ELSE PvRes(c \o [k \in 1..(new_size - Len(c)) |-> DefaultT],
                    "ok", NoRef, <<>>)

\* void resize(int new_size) {contents.resize(new_size);}: the int becomes a
\* size_t, so a negative new_size is a size above max_size() and
\* std::length_error is thrown with contents untouched
PvResize(c, new_size) ==
    IF ToSizeT(new_size) > MaxVectorSize
    THEN PvRes(c, "length_error", NoRef, <<>>)
    ELSE IF new_size <= Len(c)
         THEN PvRes(SubSeq(c, 1, new_size), "ok", NoRef, <<>>)
         ELSE PvRes(c \o [k \in 1..(new_size - Len(c)) |-> DefaultT],
                    "ok", NoRef, <<>>)

\* void reserve(int new_size) {contents.reserve(new_size);}: capacity only
PvReserve(c, new_size) ==
    IF ToSizeT(new_size) > MaxVectorSize
    THEN PvRes(c, "length_error", NoRef, <<>>)
    ELSE PvRes(c, "ok", NoRef, <<>>)

\* the plain dynamic array: its operations on a sequence a
ArrPushBack(a, x) == [k \in 1..(Len(a) + 1) |-> IF k <= Len(a) THEN a[k] ELSE x]

ArrPopBack(a) == [k \in 1..(Len(a) - 1) |-> a[k]]

ArrClear(a) == <<>>

ArrResize(a, n) == [k \in 1..n |-> IF k <= Len(a) THEN a[k] ELSE DefaultT]

ArrAssign(a, i, x) ==
    [k \in 1..Len(a) |-> IF k = (IF i < 0 THEN Len(a) + i ELSE i) + 1
                          THEN x ELSE a[k]]

\* a slice that is a view: it shares the storage of the vector it was taken of
StoreShared(target, o, c, n) == [orig |-> n, copy |-> n]

\* PythonicVector<T> new_vector; ... return new_vector;  the slice owns its
\* std::vector: a call on one object stores into that object alone
Store(target, o, c, n) ==
    IF target = "orig" THEN [orig |-> n, copy |-> c]
    ELSE [orig |-> o, copy |-> n]

\* the contents of the object a call is made on
Target(target) == IF target = "orig" THEN orig ELSE copy

\* One call on v ("orig") or on its slice s ("copy"); arr is the array after
\* the same operation when the call was on v and returned.
CpCall(name, target, x, r, writes, arr) ==
    /\ cpOutcome # "ub_vector"
    /\ target = "copy" => cpSliced
    /\ cpOp' = [name |-> name, target |-> target, elem |-> x]
    /\ cpOutcome' = r.outcome
    /\ \E n \in IF r.outcome = "ub_vector" /\ writes
                THEN CpVectors ELSE {r.contents} :
          LET st == Store(target, orig, copy, n)
          IN  orig' = st.orig /\ copy' = st.copy
    /\ array' = IF target = "orig" /\ r.outcome = "ok" THEN arr ELSE array
    /\ UNCHANGED <<cpSliced, otherThanCopy>>

\* s = v(a, b)
CpSlice ==
    \E a \in CpBounds : \E b \in CpBounds :
        LET r == PvSlice(orig, a, b)
        IN  /\ cpOutcome # "ub_vector"
            /\ cpOp' = [name |-> "()", target |-> "orig", elem |-> NoVal]
            /\ cpOutcome' = r.outcome
            /\ copy' = r.slice
            /\ orig' = r.contents
            /\ cpSliced' = TRUE
            /\ UNCHANGED <<array, otherThanCopy>>

CpAssign ==
    \E t \in {"orig", "copy"} : \E i \in CpIndices : \E x \in CpPushed :
        CpCall("[]=", t, NoVal, PvAssign(Target(t), i, x), TRUE,
               ArrAssign(array, i, x))

CpPushBack ==
    \E t \in {"orig", "copy"} : \E x \in CpPushed :
        /\ Len(Target(t)) < MaxCopy
        /\ CpCall("push_back", t, x, PvPushBack(Target(t), x), TRUE,
                  ArrPushBack(array, x))

CpPopBack ==
    \E t \in {"orig", "copy"} :
        CpCall("pop_back", t, NoVal, PvPopBack(Target(t)), TRUE,
               ArrPopBack(array))

CpClear ==
    CpCall("clear", "orig", NoVal, PvClear(orig), TRUE, ArrClear(array))

CpResize ==
    \E n \in CpSizes :
        CpCall("resize", "orig", NoVal, PvResize(orig, n), TRUE,
               ArrResize(array, n))

CpReserve ==
    \E n \in CpSizes :
        CpCall("reserve", "orig", NoVal, PvReserve(orig, n), TRUE, array)

NextCopy ==
    \/ CpSlice
    \/ CpAssign
    \/ CpPushBack
    \/ CpPopBack
    \/ CpClear
    \/ CpResize
    \/ CpReserve

SpecCopy == Init /\ [][NextCopy]_cpVars

\* ---- the unit-test macros -----------------------------------------------
\* unsigned int has the width of int: TESTS_TOTAL++ is computed modulo 2^w
UIntMod == IntMod

\* the model stops two invocations after the counters have wrapped
MaxRuns == UIntMod + 2

\* the std::string a failing macro pushes: LOCATION, LOCATION + " (" + n + ")"
Location == "LOCATION"

NamedLocation == "LOCATION (n)"

\* the values the macro arguments x, y and e are drawn from
TestArgs == 0..1

Abs(a) == IF a < 0 THEN 0 - a ELSE a

\* the conditions the macros test
CondTest(x) == x

CondEq(x, y) == x = y

CondNeq(x, y) == x # y

CondEpsilonEq(x, y, e) == Abs(x - y) <= e

CondEpsilonNeq(x, y, e) == Abs(x - y) > e

\* bookkeeping that counts a failing test as successful too
RecordResultCountsFailure(successful, failures, cond, entry) ==
    [successful |-> (successful + 1) % UIntMod,
     failures |-> IF cond THEN failures ELSE Append(failures, entry)]

\* if (cond) {TESTS_SUCCESSFUL++; ..} else {TESTS_FAILURES.push_back(entry); ..}
RecordResult(successful, failures, cond, entry) ==
    [successful |-> IF cond THEN (successful + 1) % UIntMod ELSE successful,
     failures |-> IF cond THEN failures ELSE Append(failures, entry)]

\* a macro body whose bookkeeping sits inside if (!TESTS_SILENT)
TestBodySilentSkips(total, successful, failures, silent, cond, entry) ==
    IF silent
    THEN [total |-> total, successful |-> successful, failures |-> failures,
          out |-> NoOutput]
    ELSE LET r == RecordResult(successful, failures, cond, entry)
         IN  [total |-> (total + 1) % UIntMod,
              successful |-> r.successful,
              failures |-> r.failures,
              out |-> [kind |-> IF cond THEN "test passed" ELSE "TEST FAILED",
                       passed |-> 0, total |-> 0, failed |-> <<>>]]

\* the body shared by the eight macros: TESTS_TOTAL++; if (cond) {..} else
\* {..}, the line on std::cout being written only if (!TESTS_SILENT)
TestBody(total, successful, failures, silent, cond, entry) ==
    LET r == RecordResult(successful, failures, cond, entry)
    IN  [total |-> (total + 1) % UIntMod,
         successful |-> r.successful,
         failures |-> r.failures,
         out |-> IF silent THEN NoOutput
                 ELSE [kind |-> IF cond THEN "test passed" ELSE "TEST FAILED",
                       passed |-> 0, total |-> 0, failed |-> <<>>]]

\* one expansion of a TEST-family macro as a statement
Macro(name, cond, entry) ==
    /\ tsRuns < MaxRuns
    /\ cond \/ Len(TESTS_FAILURES) < MaxFailures
    /\ LET r == TestBody(TESTS_TOTAL, TESTS_SUCCESSFUL, TESTS_FAILURES,
                         TESTS_SILENT, cond, entry)
       IN  /\ TESTS_TOTAL' = r.total
           /\ TESTS_SUCCESSFUL' = r.successful
           /\ TESTS_FAILURES' = r.failures
           /\ tsOut' = r.out
    /\ tsOp' = [macro |-> name, cond |-> cond]
    /\ tsRuns' = tsRuns + 1
    /\ UNCHANGED <<TESTS_SILENT, otherThanTests>>

TEST == \E x \in BOOLEAN : Macro("TEST", CondTest(x), Location)

TEST_NAMED == \E x \in BOOLEAN : Macro("TEST_NAMED", CondTest(x), NamedLocation)

TEST_EQ ==
    \E x \in TestArgs : \E y \in TestArgs :
        Macro("TEST_EQ", CondEq(x, y), Location)

TEST_NAMED_EQ ==
    \E x \in TestArgs : \E y \in TestArgs :
        Macro("TEST_NAMED_EQ", CondEq(x, y), NamedLocation)

TEST_EPSILON_EQ ==
    \E x \in TestArgs : \E y \in TestArgs : \E e \in TestArgs :
        Macro("TEST_EPSILON_EQ", CondEpsilonEq(x, y, e), Location)

TEST_NEQ ==
    \E x \in TestArgs : \E y \in TestArgs :
        Macro("TEST_NEQ", CondNeq(x, y), Location)

TEST_NAMED_NEQ ==
    \E x \in TestArgs : \E y \in TestArgs :
        Macro("TEST_NAMED_NEQ", CondNeq(x, y), NamedLocation)

TEST_EPSILON_NEQ ==
    \E x \in TestArgs : \E y \in TestArgs : \E e \in TestArgs :
        Macro("TEST_EPSILON_NEQ", CondEpsilonNeq(x, y, e), Location)

\* TEST_SUMMARY(): prints TESTS_SUCCESSFUL "/" TESTS_TOTAL and, if
\* TESTS_FAILURES.size() > 0, every entry of TESTS_FAILURES (the percentage
\* it prints as well is not modelled); it assigns nothing
TEST_SUMMARY ==
    /\ tsOut' = [kind |-> "summary",
                 passed |-> TESTS_SUCCESSFUL,
                 total |-> TESTS_TOTAL,
                 failed |-> IF Len(TESTS_FAILURES) > 0
                            THEN TESTS_FAILURES ELSE <<>>]
    /\ tsOp' = [macro |-> "TEST_SUMMARY", cond |-> TRUE]
    /\ UNCHANGED <<TESTS_TOTAL, TESTS_SUCCESSFUL, TESTS_SILENT,
                   TESTS_FAILURES, tsRuns, otherThanTests>>

\* TESTS_SILENT = b;
SetSilent ==
    \E b \in BOOLEAN :
        /\ TESTS_SILENT' = b
        /\ tsOut' = NoOutput
        /\ tsOp' = [macro |-> "TESTS_SILENT =", cond |-> b]
        /\ UNCHANGED <<TESTS_TOTAL, TESTS_SUCCESSFUL, TESTS_FAILURES, tsRuns,
                       otherThanTests>>

TestMacros ==
    {"TEST", "TEST_NAMED", "TEST_EQ", "TEST_NAMED_EQ", "TEST_EPSILON_EQ",
     "TEST_NEQ", "TEST_NAMED_NEQ", "TEST_EPSILON_NEQ"}

NextTests ==
    \/ TEST
    \/ TEST_NAMED
    \/ TEST_EQ
    \/ TEST_NAMED_EQ
    \/ TEST_EPSILON_EQ
    \/ TEST_NEQ
    \/ TEST_NAMED_NEQ
    \/ TEST_EPSILON_NEQ
    \/ TEST_SUMMARY
    \/ SetSilent

SpecTests == Init /\ [][NextTests]_tsVars

\* ---- Tween --------------------------------------------------------------
\* Times are whole ticks and a double in [0.0, 1.0] is the fraction
\* <<numerator, denominator>> of two ints, so that the arithmetic is exact.
Frac(n, d) == <<n, d>>

\* two fractions denote the same number
FracEq(p, q) == p[1] * q[2] = q[1] * p[2]

\* the easing functions a Tween is given, the end times and the scales
Easings == {"easeLinear", "easeInQuad"}

EndTimes == 1..(MaxTime - 1)

Scales == {0 - 1, 1, 2}

\* double easeLinear(double x) {return x;}
easeLinear(x) == x

\* double easeInQuad(double x) {return x * x;}
easeInQuad(x) == Frac(x[1] * x[1], x[2] * x[2])

\* function(x)
Ease(f, x) == IF f = "easeLinear" THEN easeLinear(x) ELSE easeInQuad(x)

\* update() without the clamp above the end time
updateNoUpperClamp(tw) ==
    IF tw.current_time < 0
    THEN [tw EXCEPT !.value = Frac(0, 1)]
    ELSE [tw EXCEPT !.value = Ease(tw.function, Frac(tw.current_time, tw.time))]

\* void update()
update(tw) ==
    IF tw.current_time > tw.time
    THEN [tw EXCEPT !.value = Frac(1, 1)]
    ELSE IF tw.current_time < 0
         THEN [tw EXCEPT !.value = Frac(0, 1)]
         ELSE [tw EXCEPT !.value =
                   Ease(tw.function, Frac(tw.current_time, tw.time))]

\* Tween(easing_function, end_time, scale), and reset(..) which assigns the same
Tween(easing_function, end_time, scale) ==
    [function |-> easing_function, value |-> Frac(0, 1), time |-> end_time,
     current_time |-> 0, scalar |-> scale]

reset(tw, easing_function, end_time, scale) ==
    [function |-> easing_function, value |-> Frac(0, 1), time |-> end_time,
     current_time |-> 0, scalar |-> scale]

\* void advance(double delta_time)
advance(tw, delta_time) ==
    update([tw EXCEPT !.current_time = tw.current_time + delta_time])

\* void set_time(double new_time)
set_time(tw, new_time) == update([tw EXCEPT !.current_time = new_time])

\* operator double() const {return value * scalar;}
Output(tw) == Frac(tw.value[1] * tw.scalar, tw.value[2])

\* the Tween object of the state
This ==
    [function |-> function, value |-> value, time |-> time,
     current_time |-> current_time, scalar |-> scalar]

TwCall(name, arg, tw, accum) ==
    /\ function' = tw.function
    /\ value' = tw.value
    /\ time' = tw.time
    /\ current_time' = tw.current_time
    /\ scalar' = tw.scalar
    /\ twOp' = [name |-> name, arg |-> arg]
    /\ twAccum' = accum
    /\ UNCHANGED otherThanTween

Advance ==
    \E dt \in Deltas :
        /\ current_time + dt <= MaxTime
        /\ current_time + dt >= 0 - MaxTime
        /\ TwCall("advance", dt, advance(This, dt), twAccum + dt)

SetTime ==
    \E t \in (0 - MaxTime)..MaxTime :
        TwCall("set_time", t, set_time(This, t), t)

Reset ==
    \E f \in Easings : \E e \in EndTimes : \E s \in Scales :
        TwCall("reset", NoArg, reset(This, f, e, s), 0)

NextTween ==
    \/ Advance
    \/ SetTime
    \/ Reset

SpecTween == Init /\ [][NextTween]_twVars

\* ---- shared vocabulary of the properties --------------------------------
\* floored modulo, result in 0..n-1 (the % of TLA+ is floored for n > 0)
FlooredMod(a, n) == a % n

\* physical position that c[o] denotes, NoRef when the call does not return
At(c, i, o) == OpSubscript(c, i, o).ref

\* value of c[o], NoVal when the call does not return
ValueAt(c, i, o) ==
    LET p == At(c, i, o) IN IF p = NoRef THEN NoVal ELSE c[p + 1]

\* values of c[0], c[1], ..., c[size() - 1]
Values(c, i) == [k \in 1..Len(c) |-> ValueAt(c, i, k - 1)]

\* a vector rotated left by one position
RotateLeft(w) == IF Len(w) = 0 THEN w ELSE Tail(w) \o <<Head(w)>>

\* a vector rotated right by one position
RotateRight(w) ==
    IF Len(w) = 0 THEN w ELSE <<w[Len(w)]>> \o SubSeq(w, 1, Len(w) - 1)

\* the zero index addresses an element of the storage
IndexInRange(c, i) == i >= 0 /\ i < Len(c)

Returned == outcome = "ok"

TypeOK ==
    /\ contents \in Vectors
    /\ index \in INT_MIN..INT_MAX
    /\ outcome \in {"ok", "out_of_range", "ub_vector", "ub_int", "ub_read"}

\* ---- properties ---------------------------------------------------------

\* C1: on a non-empty Circle of size n with zero index z, c[offset] returns
\* the element at physical position (z + offset) floored-mod n, for every
\* integer offset, negative ones included.
C1_SubscriptIsFlooredMod ==
    (op.name = "[]" /\ Len(pre.contents) > 0 /\ Returned)
        => ref = FlooredMod(pre.index + op.delta, Len(pre.contents))

\* C2: periodicity: in every reachable non-empty Circle of size n, c[i] and
\* c[i + n] denote the same element for every integer i.
C2_Periodicity ==
    (~IsUB(outcome) /\ Len(contents) > 0)
        => \A i \in Deltas :
              (InInt(index + i) /\ InInt(index + i + Len(contents)))
                  => At(contents, index, i)
                       = At(contents, index, i + Len(contents))

\* C3: zero-index invariant: after every operation that returns without
\* raising an error, size() > 0 implies 0 <= index < size().
C3_ZeroIndexInRange ==
    (Returned /\ Len(contents) > 0) => (index >= 0 /\ index < Len(contents))

\* C4: remove() on an empty Circle fails with an out-of-range error and
\* leaves (contents, index) unchanged.
C4_RemoveEmptyThrows ==
    (op.name = "remove" /\ Len(pre.contents) = 0)
        => /\ outcome = "out_of_range"
           /\ contents = pre.contents
           /\ index = pre.index

\* C5: remove() on a non-empty Circle removes exactly the element c[0]
\* denoted before the call: the storage loses that one position, and the
\* logical view afterwards is the old view without its first element.
C5_RemoveRemovesLogicalZero ==
    (op.name = "remove" /\ Len(pre.contents) > 0)
        => /\ Returned
           /\ contents = VecErase(pre.contents, At(pre.contents, pre.index, 0))
           /\ Values(contents, index) = Tail(Values(pre.contents, pre.index))

\* C6: remove() on any reachable Circle with size() = 1 succeeds and yields
\* size() = 0.
C6_RemoveLastElement ==
    (op.name = "remove" /\ Len(pre.contents) = 1)
        => (Returned /\ Len(contents) = 0)

\* C7: after insert(x), c[0] = x, whatever reachable state the Circle was in.
C7_InsertThenZeroIsX ==
    (op.name = "insert")
        => /\ Returned
           /\ contents[At(contents, index, 0) + 1] = op.elem

\* C8: insert(x) on a non-empty Circle of size n always succeeds; afterwards
\* size() = n + 1, c[0] = x, c[k + 1] is the old c[k] for 0 <= k < n, and the
\* stored zero index is numerically unchanged.
C8_InsertBeforeLogicalZero ==
    (op.name = "insert" /\ Len(pre.contents) > 0)
        => /\ Returned
           /\ Len(contents) = Len(pre.contents) + 1
           /\ Values(contents, index)
                = <<op.elem>> \o Values(pre.contents, pre.index)
           /\ index = pre.index

\* C9: prefix ++ and prefix -- on an empty Circle are reported as an
\* out-of-range error and leave the stored zero index at its previous value.
C9_PrefixOnEmptyThrows ==
    (op.name \in {"++c", "--c"} /\ Len(pre.contents) = 0)
        => (outcome = "out_of_range" /\ index = pre.index)

\* C10: += and -= on an empty Circle fail with an out-of-range error for
\* every delta (0 included) and leave the stored zero index unchanged.
C10_ShiftEmptyThrows ==
    (op.name \in {"+=", "-="} /\ Len(pre.contents) = 0)
        => /\ outcome = "out_of_range"
           /\ index = pre.index
           /\ contents = pre.contents

\* C10 witness: += 0 was called on an empty Circle and threw.
C10_Witness ==
    /\ op.name = "+="
    /\ op.delta = 0
    /\ Len(pre.contents) = 0
    /\ outcome = "out_of_range"

\* C11: operator[] on an empty Circle throws out-of-range for every offset
\* and modifies nothing; postfix ++ and postfix -- on an empty Circle throw
\* the same error before the zero index is changed.
C11_ReadEmptyThrows ==
    (op.name \in {"[]", "c++", "c--"} /\ Len(pre.contents) = 0)
        => /\ outcome = "out_of_range"
           /\ contents = pre.contents
           /\ index = pre.index

\* C11 witness: postfix ++ was called on an empty Circle whose zero index had
\* been moved away from 0, and threw.
C11_Witness ==
    /\ op.name = "c++"
    /\ Len(pre.contents) = 0
    /\ pre.index # 0
    /\ outcome = "out_of_range"

\* C12: on a non-empty Circle of size n with zero index z in [0, n), after
\* c += delta the zero index is (z + delta) floored-mod n, for every delta.
C12_PlusEqIsFlooredMod ==
    (op.name = "+=" /\ IndexInRange(pre.contents, pre.index) /\ Returned)
        => index = FlooredMod(pre.index + op.delta, Len(pre.contents))

\* C13: on a non-empty Circle of size n with zero index z in [0, n), after
\* c -= delta the zero index is (z - delta) floored-mod n, for every delta.
C13_MinusEqIsFlooredMod ==
    (op.name = "-=" /\ IndexInRange(pre.contents, pre.index) /\ Returned)
        => index = FlooredMod(pre.index - op.delta, Len(pre.contents))

\* C14: full turn: in every reachable non-empty Circle of size n, c += n
\* succeeds and leaves c[0] and the whole logical view c[0..n-1] unchanged.
C14_FullTurn ==
    (op.name = "+=" /\ Len(pre.contents) > 0 /\ op.delta = Len(pre.contents))
        => /\ Returned
           /\ At(contents, index, 0) = At(pre.contents, pre.index, 0)
           /\ Values(contents, index) = Values(pre.contents, pre.index)

\* C15: from every reachable state, ++c and c += 1 end the same way (same
\* error, or same zero index and logical view), and so do --c and c -= 1.
SameResult(r1, r2) ==
    /\ r1.outcome = r2.outcome
    /\ r1.outcome = "ok"
          => /\ r1.index = r2.index
             /\ Values(r1.contents, r1.index) = Values(r2.contents, r2.index)

C15_PrefixIsShiftByOne ==
    ~IsUB(outcome)
        => /\ SameResult(OpPreInc(contents, index), OpPlusEq(contents, index, 1))
           /\ SameResult(OpPreDec(contents, index), OpMinusEq(contents, index, 1))

\* C16: on a non-empty Circle, c++ returns the value c[0] had before the call
\* and leaves the Circle as prefix ++c leaves it (a well-formed view [A, B, C]
\* becomes [B, C, A]); c-- returns the old c[0] and leaves the Circle as
\* prefix --c leaves it.
PostfixLike(r) ==
    /\ outcome = r.outcome
    /\ Returned
          => /\ val = ValueAt(pre.contents, pre.index, 0)
             /\ contents = r.contents
             /\ index = r.index

C16_PostfixReturnsOldZero ==
    /\ (op.name = "c++" /\ Len(pre.contents) > 0)
          => /\ PostfixLike(OpPreInc(pre.contents, pre.index))
             /\ IndexInRange(pre.contents, pre.index)
                   => /\ Returned
                      /\ Values(contents, index)
                           = RotateLeft(Values(pre.contents, pre.index))
    /\ (op.name = "c--" /\ Len(pre.contents) > 0)
          => /\ PostfixLike(OpPreDec(pre.contents, pre.index))
             /\ IndexInRange(pre.contents, pre.index)
                   => /\ Returned
                      /\ Values(contents, index)
                           = RotateRight(Values(pre.contents, pre.index))

\* C16 witness: c++ on a Circle of three elements whose c[0] and c[1] differ
\* returned the old c[0].
C16_Witness ==
    /\ op.name = "c++"
    /\ Len(pre.contents) = 3
    /\ IndexInRange(pre.contents, pre.index)
    /\ ValueAt(pre.contents, pre.index, 0) # ValueAt(pre.contents, pre.index, 1)
    /\ Returned
    /\ val = ValueAt(pre.contents, pre.index, 0)

\* C17: clear() never fails and, from every reachable state, leaves the
\* (contents, index) pair of a freshly constructed Circle: size() = 0 and
\* zero index 0.
C17_ClearGivesFresh ==
    (op.name = "clear")
        => /\ Returned
           /\ contents = <<>>
           /\ index = 0

\* C18: the documented scenario: three inserts into an empty Circle give the
\* logical view [third, second, first] ([Three, Two, One]); the postfix ++
\* that follows gives [second, first, third] ([Two, One, Three]); reading
\* c[i] for i = 0 .. 2 * size() - 1 then yields that cycle twice, in order.
C18_ReadmeScenario ==
    /\ Returned
    /\ op.name = "insert"
          => Values(contents, index)
               = <<op.elem>> \o Values(pre.contents, pre.index)
    /\ (op.name = "insert" /\ Len(contents) = ScenarioLen)
          => Values(contents, index) = contents
    /\ op.name = "c++"
          => /\ val = pre.contents[1]
             /\ Values(contents, index)
                  = <<pre.contents[2], pre.contents[3], pre.contents[1]>>
    /\ op.name = "[]"
          => contents[ref + 1]
               = <<contents[2], contents[3], contents[1]>>[(op.delta % 3) + 1]

\* C18 witness: after One, Two, Three were inserted and postfix ++ was called,
\* the last read of the loop, c[5], yielded Three.
C18_Witness ==
    /\ contents = <<3, 2, 1>>
    /\ index = 1
    /\ op.name = "[]"
    /\ op.delta = 5
    /\ Returned
    /\ contents[ref + 1] = 3

\* C19: PythonicVector::operator[]: for a non-empty v of size n, v[-k] is
\* the element v[n - k] for 1 <= k <= n, and v[i] is the i-th stored element
\* for 0 <= i < n.
C19_NegativeIndexFromEnd ==
    (pvOp.name = "[]" /\ pvOp.a >= 0 - Len(pvPre) /\ pvOp.a < Len(pvPre))
        => /\ pvOutcome = "ok"
           /\ pvContents = pvPre
           /\ pvRef = IF pvOp.a < 0 THEN Len(pvPre) + pvOp.a ELSE pvOp.a
           /\ pvOp.a < 0
                 => pvRef = PvSubscript(pvPre, Len(pvPre) + pvOp.a).ref

\* C19 witness: v[-1] was read on a vector of at least two elements and
\* referred to the last one.
C19_Witness ==
    /\ pvOp.name = "[]"
    /\ pvOp.a = 0 - 1
    /\ Len(pvPre) >= 2
    /\ pvOutcome = "ok"
    /\ pvRef = Len(pvPre) - 1

\* C20: slicing v(start, end) with 0 <= start <= end <= v.size() returns a
\* new vector of size end - start whose j-th element is v[start + j]
\* (end exclusive, zero-based).
C20_SliceCopiesRange ==
    (pvOp.name = "()" /\ 0 <= pvOp.a /\ pvOp.a <= pvOp.b
                     /\ pvOp.b <= Len(pvPre))
        => /\ pvOutcome = "ok"
           /\ Len(pvSlice) = pvOp.b - pvOp.a
           /\ \A j \in 0..(pvOp.b - pvOp.a - 1) :
                 pvSlice[j + 1]
                   = pvPre[PvSubscript(pvPre, pvOp.a + j).ref + 1]

\* C20 witness: v(1, 4) on a vector of five elements returned the three
\* elements v[1], v[2], v[3].
C20_Witness ==
    /\ pvOp.name = "()"
    /\ pvOp.a = 1
    /\ pvOp.b = 4
    /\ Len(pvPre) = 5
    /\ pvOutcome = "ok"
    /\ pvSlice = <<pvPre[2], pvPre[3], pvPre[4]>>

\* C17 witness: clear() was called on a non-empty Circle whose zero index was
\* outside [0, size()).
C17_Witness ==
    /\ op.name = "clear"
    /\ Len(pre.contents) > 0
    /\ ~IndexInRange(pre.contents, pre.index)
    /\ Returned

\* C21: slicing accepts a negative end, counted from the end of the vector:
\* v(start, end) with end < 0 is v(start, end + v.size()); on five elements
\* v(1, -1) is the three elements v[1], v[2], v[3], the same as v(1, 4).
C21_NegativeEndSlice ==
    (pvOp.name = "()" /\ pvOp.b < 0 /\ pvOp.a >= 0
                     /\ pvOp.a <= pvOp.b + Len(pvPre))
        => /\ pvOutcome = "ok"
           /\ pvSlice = PvSlice(pvPre, pvOp.a, pvOp.b + Len(pvPre)).slice

\* the calls that modify the object they are made on
CpWrites == {"[]=", "push_back", "pop_back", "clear", "resize"}

\* C22: slicing is a pure copy: taking s = v(start, end) leaves the contents
\* and the size of v unchanged, and a later write through operator[], a
\* push_back or a pop_back (or any other modifying call) on one of s and v
\* is not visible in the other.
C22_SliceIsPureCopy ==
    [][cpOutcome' # "ub_vector"
         => /\ cpOp'.name = "()" => orig' = orig /\ Len(orig') = Len(orig)
            /\ (cpOp'.name \in CpWrites /\ cpOp'.target = "copy")
                  => orig' = orig
            /\ (cpOp'.name \in CpWrites /\ cpOp'.target = "orig")
                  => copy' = copy]_cpVars

\* C22 witness: after a slice of the whole of a non-empty v was taken, a
\* write into the slice made it differ from v.
C22_Witness ==
    /\ cpSliced
    /\ cpOp.name = "[]="
    /\ cpOp.target = "copy"
    /\ cpOutcome = "ok"
    /\ Len(orig) > 0
    /\ Len(copy) = Len(orig)
    /\ copy # orig
    /\ orig = array

\* C23: the passthrough operations refine a plain dynamic array: run side by
\* side with the array, any series of push_back, pop_back (on non-empty),
\* clear and resize keeps size() equal to the length of the array and v[i]
\* equal to its element i for 0 <= i < size(); after push_back(x), v[-1] is x.
C23_RefinesPlainArray ==
    cpOutcome # "ub_vector"
        => /\ PvSize(orig).ref = Len(array)
           /\ \A i \in 0..(Len(array) - 1) :
                 /\ PvSubscript(orig, i).outcome = "ok"
                 /\ orig[PvSubscript(orig, i).ref + 1] = array[i + 1]
           /\ (cpOp.name = "push_back" /\ cpOp.target = "orig")
                 => /\ PvSubscript(orig, 0 - 1).outcome = "ok"
                    /\ orig[PvSubscript(orig, 0 - 1).ref + 1] = cpOp.elem

\* C23 witness: resize() grew a vector holding a pushed element by an
\* element T(), and the array did the same.
C23_Witness ==
    /\ cpOp.name = "resize"
    /\ cpOutcome = "ok"
    /\ Len(orig) = MaxCopy
    /\ orig[1] \in CpPushed
    /\ orig[MaxCopy] = DefaultT
    /\ orig = array

\* the operators that shift the zero index
Shifts == {"+=", "-=", "++c", "c++", "--c", "c--"}

\* C25: +=, -= and prefix/postfix ++/-- on a non-empty Circle leave the
\* backing storage and size() unchanged, the zero index being all they
\* change; reading through operator[] and size() change neither the storage
\* nor the zero index.
C25_ShiftsKeepStorage ==
    /\ (op.name \in Shifts /\ Len(pre.contents) > 0)
          => /\ contents = pre.contents
             /\ size(contents, index).ref = size(pre.contents, pre.index).ref
    /\ op.name \in {"[]", "size"}
          => /\ contents = pre.contents
             /\ index = pre.index

\* C25 witness: a shift on a Circle of at least two elements returned and
\* moved the zero index.
C25_Witness ==
    /\ op.name \in Shifts
    /\ Len(pre.contents) >= 2
    /\ Returned
    /\ index # pre.index
    /\ contents = pre.contents

\* C26: the wrap loops of +=, -= and [] terminate: for every zero index,
\* every delta or offset and every size n >= 1 (and after the throw for
\* n = 0), with the guards evaluated as the code evaluates them (int against
\* size_t, int of bounded width), a call that has started returns.
C26_WrapLoopsTerminate ==
    (lpPc \in {"high", "low"}) ~> (lpPc \in {"done", "thrown"})

\* C26 witness: a call that started from a negative loop variable on a
\* Circle of three elements went through the first loop and returned with
\* the variable in [0, size()).
C26_Witness ==
    /\ lpPc = "done"
    /\ lpN = 3
    /\ LoopStart(lpKind, lpIndex, lpArg) < 0
    /\ InInt(LoopStart(lpKind, lpIndex, lpArg))
    /\ lpT >= 0
    /\ lpT < lpN

\* C27: in every reachable state of a Circle, empty or not, insert(x)
\* immediately followed by remove() restores the exact (storage, zero index)
\* pair the Circle had before.
C27_InsertRemoveRestores ==
    (~IsUB(outcome) /\ Len(contents) < MaxLen)
        => \A x \in Elems :
              LET a == insert(contents, index, x)
                  b == remove(a.contents, a.index)
              IN  /\ a.outcome = "ok"
                  /\ b.outcome = "ok"
                  /\ b.contents = contents
                  /\ b.index = index

\* ++c applied k times, stopping at the first call that does not return
RECURSIVE PreIncTimes(_, _, _)
PreIncTimes(c, i, k) ==
    IF k = 0 THEN Res(c, i, "ok", NoRef, NoVal)
    ELSE LET r == OpPreInc(c, i)
         IN  IF r.outcome = "ok" THEN PreIncTimes(r.contents, r.index, k - 1)
             ELSE r

\* C28: prefix ++ and -- are mutual inverses on a non-empty Circle in every
\* reachable state: ++c then --c, and --c then ++c, restore the logical view
\* c[0..size()-1]; ++c applied exactly size() times restores it as well.
C28_PrefixInverses ==
    (~IsUB(outcome) /\ Len(contents) > 0)
        => LET up == OpPreInc(contents, index)
               upDown == OpPreDec(up.contents, up.index)
               down == OpPreDec(contents, index)
               downUp == OpPreInc(down.contents, down.index)
               turn == PreIncTimes(contents, index, Len(contents))
           IN  /\ up.outcome = "ok" /\ upDown.outcome = "ok"
               /\ Values(upDown.contents, upDown.index) = Values(contents, index)
               /\ down.outcome = "ok" /\ downUp.outcome = "ok"
               /\ Values(downUp.contents, downUp.index) = Values(contents, index)
               /\ turn.outcome = "ok"
               /\ Values(turn.contents, turn.index) = Values(contents, index)

\* C24: the bookkeeping of the unit tests is independent of TESTS_SILENT:
\* every TEST-family macro raises TESTS_TOTAL by one (as ++ does on an
\* unsigned int) and either raises TESTS_SUCCESSFUL by one (condition true)
\* or appends one entry to TESTS_FAILURES (condition false), whatever the
\* value of TESTS_SILENT and however often it was toggled; TEST_SUMMARY
\* reports the counters and the failures, the silent tests included.
C24_BookkeepingIgnoresSilent ==
    [][/\ tsOp'.macro \in TestMacros
          => /\ TESTS_TOTAL' = (TESTS_TOTAL + 1) % UIntMod
             /\ TESTS_SILENT' = TESTS_SILENT
             /\ tsOp'.cond
                   => /\ TESTS_SUCCESSFUL' = (TESTS_SUCCESSFUL + 1) % UIntMod
                      /\ TESTS_FAILURES' = TESTS_FAILURES
             /\ ~tsOp'.cond
                   => /\ TESTS_SUCCESSFUL' = TESTS_SUCCESSFUL
                      /\ Len(TESTS_FAILURES') = Len(TESTS_FAILURES) + 1
                      /\ SubSeq(TESTS_FAILURES', 1, Len(TESTS_FAILURES))
                            = TESTS_FAILURES
       /\ tsOp'.macro = "TEST_SUMMARY"
          => /\ tsOut'.kind = "summary"
             /\ tsOut'.passed = TESTS_SUCCESSFUL
             /\ tsOut'.total = TESTS_TOTAL
             /\ tsOut'.failed = TESTS_FAILURES
             /\ UNCHANGED <<TESTS_TOTAL, TESTS_SUCCESSFUL, TESTS_FAILURES>>
       /\ tsOp'.macro = "TESTS_SILENT ="
          => UNCHANGED <<TESTS_TOTAL, TESTS_SUCCESSFUL, TESTS_FAILURES>>]_tsVars

\* C24 witness: a failing test ran while TESTS_SILENT was true, after one
\* passing test: it wrote nothing and was counted and recorded.
C24_Witness ==
    /\ tsOp.macro \in TestMacros
    /\ ~tsOp.cond
    /\ TESTS_SILENT
    /\ tsOut = NoOutput
    /\ TESTS_TOTAL = 2
    /\ TESTS_SUCCESSFUL = 1
    /\ Len(TESTS_FAILURES) = 1

\* C29: after any sequence of TEST-family macros, TESTS_SILENT in any state,
\* TESTS_TOTAL == TESTS_SUCCESSFUL + TESTS_FAILURES.size() and
\* TESTS_SUCCESSFUL <= TESTS_TOTAL, and none of the three ever decreases.
C29_CountersConsistent ==
    /\ [](/\ TESTS_TOTAL = TESTS_SUCCESSFUL + Len(TESTS_FAILURES)
          /\ TESTS_SUCCESSFUL <= TESTS_TOTAL)
    /\ [][/\ TESTS_TOTAL' >= TESTS_TOTAL
          /\ TESTS_SUCCESSFUL' >= TESTS_SUCCESSFUL
          /\ Len(TESTS_FAILURES') >= Len(TESTS_FAILURES)]_tsVars

\* C29, amended: the same while fewer than 2^w TEST-family macros have run
\* (w the width of unsigned int); in every state TESTS_TOTAL is
\* TESTS_SUCCESSFUL + TESTS_FAILURES.size() modulo 2^w, and
\* TESTS_FAILURES.size() never decreases.
C29_ConsistentBelowWrap ==
    /\ [](/\ TESTS_TOTAL = (TESTS_SUCCESSFUL + Len(TESTS_FAILURES)) % UIntMod
          /\ tsRuns < UIntMod
                => /\ TESTS_TOTAL = TESTS_SUCCESSFUL + Len(TESTS_FAILURES)
                   /\ TESTS_SUCCESSFUL <= TESTS_TOTAL)
    /\ [][/\ Len(TESTS_FAILURES') >= Len(TESTS_FAILURES)
          /\ tsRuns' < UIntMod
                => /\ TESTS_TOTAL' >= TESTS_TOTAL
                   /\ TESTS_SUCCESSFUL' >= TESTS_SUCCESSFUL]_tsVars

\* C29 witness: passing and failing tests, silent and not, have run and the
\* counters have not wrapped yet.
C29_Witness ==
    /\ tsRuns = UIntMod - 1
    /\ TESTS_TOTAL = UIntMod - 1
    /\ Len(TESTS_FAILURES) = 2
    /\ TESTS_SUCCESSFUL = UIntMod - 3
    /\ tsOp.macro \in TestMacros
    /\ TESTS_SILENT

\* C30: a Tween clamps: after any sequence of advance(dt) and set_time(t) the
\* output depends only on the accumulated time T (advance(a); advance(b) on a
\* fresh Tween gives what set_time(a + b) gives); it is exactly scale when
\* T > end_time, exactly 0 when T < 0, and scale * easing(T / end_time)
\* otherwise; reset() returns the output to 0 and the time to 0.
C30_TweenClamps ==
    /\ twOp.name \in {"advance", "set_time"}
          => /\ current_time = twAccum
             /\ twAccum > time => FracEq(Output(This), Frac(scalar, 1))
             /\ twAccum < 0 => FracEq(Output(This), Frac(0, 1))
             /\ (twAccum >= 0 /\ twAccum <= time)
                   => FracEq(Output(This),
                             Frac(scalar * Ease(function, Frac(twAccum, time))[1],
                                  Ease(function, Frac(twAccum, time))[2]))
    /\ twOp.name = "reset"
          => /\ FracEq(Output(This), Frac(0, 1))
             /\ current_time = 0
    /\ \A a \in Deltas : \A b \in Deltas :
          LET fresh == Tween(function, time, scalar)
          IN  FracEq(Output(advance(advance(fresh, a), b)),
                     Output(set_time(fresh, a + b)))

\* C30 witness: advance() took a Tween with easeInQuad and scale 2 past its
\* end time, where the output is the scale.
C30_Witness ==
    /\ twOp.name = "advance"
    /\ function = "easeInQuad"
    /\ scalar = 2
    /\ time = 2
    /\ twAccum > time
    /\ Output(This) = Frac(2, 1)
====
